---- MODULE Spec2Model ----
(***************************************************************************)
(* The thumbnail service of private-video-hub-desktop                      *)
(* (src/services/ThumbnailService.ts, the class at lines 173-377):         *)
(* admission and dedup (generate), the concurrency-bounded dispatcher      *)
(* (processQueue), the completion wrapper with its insertion-ordered       *)
(* bounded cache, and clearCache.                                          *)
(*                                                                         *)
(* JavaScript runs each handler to completion, so one action is one        *)
(* synchronous run: a generate call together with the synchronous prefix   *)
(* of the processQueue call it makes, one requestAnimationFrame callback,  *)
(* the continuation of processQueue after its await (try/catch/finally),   *)
(* or clearCache.                                                          *)
(***************************************************************************)
EXTENDS Integers, Sequences, FiniteSets, TLC

----------------------------------------------------------------------------
(* Bounds of the model *)

\* Number of jobs that may be admitted (enqueued) in one behaviour.
MaxCalls == 4

\* The cache limit.  The source sets 500 (ThumbnailService.ts:178); the
\* wrapper is parametric in it and the model is checked with it scaled down
\* so that a full cache and evictions are reached.
MAX_CACHE_SIZE == 2

\* File keys.  fileKey is any string; "" is the one falsy string of
\* JavaScript, which the eviction test `if (firstKey)` distinguishes.
Keys == {"", "a", "b"}

\* The caller callbacks that may throw when they are invoked.
ThrowingCallbacks == {1}

\* The distinct keys of the burst scenario (ten requests at once).
BurstKeys == <<"k1", "k2", "k3", "k4", "k5", "k6", "k7", "k8", "k9", "k10">>
BurstN == Len(BurstKeys)

\* Number of distinct-key requests of the streaming scenario.
StreamLen == 5

\* Requests of the scenario SpecLive.
LiveLen == 4

----------------------------------------------------------------------------
(* Program constants *)

MAX_CONCURRENT_THUMBNAILS == 3

\* The result written by the catch branch: task.callback('', 0).
EMPTY == [dataUrl |-> "", duration |-> 0]

\* What createThumbnail can resolve with: an encoded frame and a duration.
Results == {[dataUrl |-> "data:image/jpeg", duration |-> 7]}

\* The ways the awaited createThumbnail promise settles.
REJECT == [dataUrl |-> "rejected", duration |-> 0]
Outcomes == Results \cup {REJECT}

----------------------------------------------------------------------------
(* State *)

VARIABLES
  queue,        \* Array<ThumbnailTask>: admitted, not yet started
  activeCount,  \* number
  cache,        \* Map<string, result>, a sequence in insertion order
  pendingKeys,  \* Set<string>
  running,      \* tasks whose processQueue call is suspended at its await
  rafTicks,     \* requestAnimationFrame callbacks scheduled and not yet run
  nextId,       \* identity of the next caller callback (history)
  cbCount,      \* cbCount[i]: how often caller callback i was invoked (history)
  dedupWindow,  \* tasks admitted when no other task of their key was queued
                \* or executing, still incomplete, no clearCache since (history)
  clearedKeys,  \* keys cached at the last clearCache and not requested since (history)
  lastOp,       \* the last handler run and the callback arguments it passed (history)
  staleJobs,    \* tasks that were executing when clearCache last ran and are
                \* still executing (history)
  cbView,       \* what the caller callback invoked by the last handler found:
                \* the fields of the service at the time of the call (history)
  droppedKeys,  \* keys of the tasks the last clearCache removed from the
                \* queue, not requested since (history)
  ex            \* the extraction (createThumbnail call) of the job followed in
                \* SpecExtract: promises, media elements and timers; in
                \* SpecFfmpeg and SpecProbe the one call that is followed

vars == <<queue, activeCount, cache, pendingKeys, running, rafTicks,
          nextId, cbCount, dedupWindow, clearedKeys, lastOp, staleJobs, cbView,
          droppedKeys, ex>>

\* A ThumbnailTask: its fileKey and its callback closure, identified by the
\* caller callback it wraps.
Task(k, i) == [fileKey |-> k, callback |-> i]

----------------------------------------------------------------------------
(* The cache: a JavaScript Map, which iterates in insertion order *)

CacheKeys(c) == {c[i].key : i \in 1..Len(c)}

CacheHas(c, k) == k \in CacheKeys(c)

CacheGet(c, k) == c[CHOOSE i \in 1..Len(c) : c[i].key = k].val

\* Map.set: an existing key keeps its position and gets the new value, a new
\* key is appended.
CacheSet(c, k, v) ==
  IF CacheHas(c, k)
    THEN [i \in 1..Len(c) |-> IF c[i].key = k THEN [key |-> k, val |-> v] ELSE c[i]]
    ELSE Append(c, [key |-> k, val |-> v])

\* Map.delete
CacheDelete(c, k) == SelectSeq(c, LAMBDA e : e.key # k)

\* JavaScript truthiness of `firstKey`: undefined (empty map) and "" are falsy.
Truthy(c) == Len(c) > 0 /\ c[1].key # ""

\* Lines 198-203 of the completion wrapper: evict, then set.
CachePut(c, k, v) ==
  LET evicted == IF Len(c) >= MAX_CACHE_SIZE /\ Truthy(c)
                   THEN CacheDelete(c, c[1].key)
                   ELSE c
  IN  CacheSet(evicted, k, v)

----------------------------------------------------------------------------
(* Initial state: the service as constructed (lines 174-177) *)

NoOp(name) == [op |-> name, fileKey |-> "-", path |-> "-", cbArgs |-> <<>>]

\* No caller callback was invoked by the last handler.
NoView == [activeCount |-> -1, rafTicks |-> -1, pending |-> FALSE]

\* No extraction is followed: no media element, timer or promise exists.
ExIdle ==
  [phase |-> "idle", hasPath |-> FALSE, hasApi |-> FALSE, dur |-> 0,
   probe |-> "none", probeVal |-> 0,
   ipc |-> [ok |-> FALSE, dataUrl |-> "", hasDuration |-> FALSE, duration |-> 0],
   video |-> "none", timer |-> FALSE, delay |-> FALSE, seekTime |-> -1,
   result |-> EMPTY, ffmpegCalls |-> 0, ffmpegTime |-> -1, inlineRuns |-> 0,
   settleCalls |-> 0, cleanAtSettle |-> TRUE, late |-> 0,
   probeAwaited |-> FALSE]

Init ==
  /\ queue = <<>>
  /\ activeCount = 0
  /\ cache = <<>>
  /\ pendingKeys = {}
  /\ running = {}
  /\ rafTicks = 0
  /\ nextId = 1
  /\ cbCount = <<>>
  /\ dedupWindow = {}
  /\ clearedKeys = {}
  /\ lastOp = NoOp("init")
  /\ staleJobs = {}
  /\ cbView = NoView
  /\ droppedKeys = {}
  /\ ex = ExIdle

----------------------------------------------------------------------------
(* processQueue, lines 211-217: the synchronous prefix up to the await.    *)
(* It starts at most one task.  q, a, r are the queue, the counter and the *)
(* suspended calls it finds.                                               *)

\* Variant: the concurrency limit is not tested.
processQueue_NoLimit(q, a, r) ==
  IF Len(q) = 0
    THEN queue' = q /\ activeCount' = a /\ running' = r
    ELSE queue' = Tail(q) /\ activeCount' = a + 1 /\ running' = r \cup {Head(q)}

\* Variant: the task is taken from the end of the queue (pop for shift).
processQueue_Lifo(q, a, r) ==
  IF a >= MAX_CONCURRENT_THUMBNAILS \/ Len(q) = 0
    THEN queue' = q /\ activeCount' = a /\ running' = r
    ELSE /\ queue' = SubSeq(q, 1, Len(q) - 1)
         /\ activeCount' = a + 1
         /\ running' = r \cup {q[Len(q)]}

\* Variant: one call starts tasks until the limit is reached (a loop).
processQueue_Drain(q, a, r) ==
  LET n == IF MAX_CONCURRENT_THUMBNAILS - a < Len(q)
             THEN (IF MAX_CONCURRENT_THUMBNAILS - a < 0 THEN 0
                   ELSE MAX_CONCURRENT_THUMBNAILS - a)
             ELSE Len(q)
  IN  /\ queue' = SubSeq(q, n + 1, Len(q))
      /\ activeCount' = a + n
      /\ running' = r \cup {q[i] : i \in 1..n}

processQueue(q, a, r) ==
  IF a >= MAX_CONCURRENT_THUMBNAILS \/ Len(q) = 0
    THEN queue' = q /\ activeCount' = a /\ running' = r
    ELSE queue' = Tail(q) /\ activeCount' = a + 1 /\ running' = r \cup {Head(q)}

Incomplete == {queue[i] : i \in 1..Len(queue)} \cup running

----------------------------------------------------------------------------
(* generate(url, fileKey, callback, filePath), lines 181-209 *)

\* Variant: the pendingKeys test is missing.
generate_NoPendingCheck(k) ==
  IF CacheHas(cache, k) THEN
    \* lines 182-186: the cached result goes to the callback, nothing else
    /\ lastOp' = [op |-> "generate", fileKey |-> k, path |-> "hit",
                  cbArgs |-> <<CacheGet(cache, k)>>]
    /\ clearedKeys' = clearedKeys \ {k}
    /\ UNCHANGED <<queue, activeCount, cache, pendingKeys, running, rafTicks,
                   nextId, cbCount, dedupWindow>>
  ELSE
    \* lines 192-208: mark pending, push the task, run processQueue
    /\ pendingKeys' = pendingKeys \cup {k}
    /\ processQueue(Append(queue, Task(k, nextId)), activeCount, running)
    /\ nextId' = nextId + 1
    /\ cbCount' = Append(cbCount, 0)
    /\ dedupWindow' = IF \E t \in Incomplete : t.fileKey = k
                        THEN dedupWindow
                        ELSE dedupWindow \cup {Task(k, nextId)}
    /\ clearedKeys' = clearedKeys \ {k}
    /\ lastOp' = [op |-> "generate", fileKey |-> k, path |-> "enqueued",
                  cbArgs |-> <<>>]
    /\ UNCHANGED <<cache, rafTicks>>

\* Variant: the cache-hit branch does not return after calling back.
generate_HitNoReturn(k) ==
  IF k \in pendingKeys THEN
    /\ lastOp' = [op |-> "generate", fileKey |-> k,
                  path |-> IF CacheHas(cache, k) THEN "hit" ELSE "pending",
                  cbArgs |-> IF CacheHas(cache, k) THEN <<CacheGet(cache, k)>>
                             ELSE <<>>]
    /\ clearedKeys' = clearedKeys \ {k}
    /\ UNCHANGED <<queue, activeCount, cache, pendingKeys, running, rafTicks,
                   nextId, cbCount, dedupWindow>>
  ELSE
    \* lines 192-208: mark pending, push the task, run processQueue
    /\ pendingKeys' = pendingKeys \cup {k}
    /\ processQueue(Append(queue, Task(k, nextId)), activeCount, running)
    /\ nextId' = nextId + 1
    /\ cbCount' = Append(cbCount, 0)
    /\ dedupWindow' = IF \E t \in Incomplete : t.fileKey = k
                        THEN dedupWindow
                        ELSE dedupWindow \cup {Task(k, nextId)}
    /\ clearedKeys' = clearedKeys \ {k}
    /\ lastOp' = [op |-> "generate", fileKey |-> k,
                  path |-> IF CacheHas(cache, k) THEN "hit" ELSE "enqueued",
                  cbArgs |-> IF CacheHas(cache, k) THEN <<CacheGet(cache, k)>>
                             ELSE <<>>]
    /\ UNCHANGED <<cache, rafTicks>>

\* Variant: a call for a pending key is answered at once with the empty
\* result.
generate_PendingCallsBack(k) ==
  IF CacheHas(cache, k) THEN
    \* lines 182-186: the cached result goes to the callback, nothing else
    /\ lastOp' = [op |-> "generate", fileKey |-> k, path |-> "hit",
                  cbArgs |-> <<CacheGet(cache, k)>>]
    /\ clearedKeys' = clearedKeys \ {k}
    /\ UNCHANGED <<queue, activeCount, cache, pendingKeys, running, rafTicks,
                   nextId, cbCount, dedupWindow>>
  ELSE IF k \in pendingKeys THEN
    \* lines 188-190: the call returns, the callback is dropped
    /\ lastOp' = [op |-> "generate", fileKey |-> k, path |-> "pending",
                  cbArgs |-> <<EMPTY>>]
    /\ clearedKeys' = clearedKeys \ {k}
    /\ UNCHANGED <<queue, activeCount, cache, pendingKeys, running, rafTicks,
                   nextId, cbCount, dedupWindow>>
  ELSE
    \* lines 192-208: mark pending, push the task, run processQueue
    /\ pendingKeys' = pendingKeys \cup {k}
    /\ processQueue(Append(queue, Task(k, nextId)), activeCount, running)
    /\ nextId' = nextId + 1
    /\ cbCount' = Append(cbCount, 0)
    /\ dedupWindow' = IF \E t \in Incomplete : t.fileKey = k
                        THEN dedupWindow
                        ELSE dedupWindow \cup {Task(k, nextId)}
    /\ clearedKeys' = clearedKeys \ {k}
    /\ lastOp' = [op |-> "generate", fileKey |-> k, path |-> "enqueued",
                  cbArgs |-> <<>>]
    /\ UNCHANGED <<cache, rafTicks>>

\* Variant: generate pushes the task and does not run processQueue.
generate_NoDispatch(k) ==
  IF CacheHas(cache, k) THEN
    \* lines 182-186: the cached result goes to the callback, nothing else
    /\ lastOp' = [op |-> "generate", fileKey |-> k, path |-> "hit",
                  cbArgs |-> <<CacheGet(cache, k)>>]
    /\ clearedKeys' = clearedKeys \ {k}
    /\ UNCHANGED <<queue, activeCount, cache, pendingKeys, running, rafTicks,
                   nextId, cbCount, dedupWindow>>
  ELSE IF k \in pendingKeys THEN
    \* lines 188-190: the call returns, the callback is dropped
    /\ lastOp' = [op |-> "generate", fileKey |-> k, path |-> "pending",
                  cbArgs |-> <<>>]
    /\ clearedKeys' = clearedKeys \ {k}
    /\ UNCHANGED <<queue, activeCount, cache, pendingKeys, running, rafTicks,
                   nextId, cbCount, dedupWindow>>
  ELSE
    \* lines 192-208: mark pending, push the task, run processQueue
    /\ pendingKeys' = pendingKeys \cup {k}
    /\ queue' = Append(queue, Task(k, nextId))
    /\ UNCHANGED <<activeCount, running>>
    /\ nextId' = nextId + 1
    /\ cbCount' = Append(cbCount, 0)
    /\ dedupWindow' = IF \E t \in Incomplete : t.fileKey = k
                        THEN dedupWindow
                        ELSE dedupWindow \cup {Task(k, nextId)}
    /\ clearedKeys' = clearedKeys \ {k}
    /\ lastOp' = [op |-> "generate", fileKey |-> k, path |-> "enqueued",
                  cbArgs |-> <<>>]
    /\ UNCHANGED <<cache, rafTicks>>

\* Variant: a cache hit refreshes the entry's recency (delete and set
\* again), as an access-ordered LRU would.
generate_HitRefreshes(k) ==
  IF CacheHas(cache, k) THEN
    /\ lastOp' = [op |-> "generate", fileKey |-> k, path |-> "hit",
                  cbArgs |-> <<CacheGet(cache, k)>>]
    /\ clearedKeys' = clearedKeys \ {k}
    /\ cache' = CacheSet(CacheDelete(cache, k), k, CacheGet(cache, k))
    /\ UNCHANGED <<queue, activeCount, pendingKeys, running, rafTicks,
                   nextId, cbCount, dedupWindow>>
  ELSE IF k \in pendingKeys THEN
    /\ lastOp' = [op |-> "generate", fileKey |-> k, path |-> "pending",
                  cbArgs |-> <<>>]
    /\ clearedKeys' = clearedKeys \ {k}
    /\ UNCHANGED <<queue, activeCount, cache, pendingKeys, running, rafTicks,
                   nextId, cbCount, dedupWindow>>
  ELSE
    /\ pendingKeys' = pendingKeys \cup {k}
    /\ processQueue(Append(queue, Task(k, nextId)), activeCount, running)
    /\ nextId' = nextId + 1
    /\ cbCount' = Append(cbCount, 0)
    /\ dedupWindow' = IF \E t \in Incomplete : t.fileKey = k
                        THEN dedupWindow
                        ELSE dedupWindow \cup {Task(k, nextId)}
    /\ clearedKeys' = clearedKeys \ {k}
    /\ lastOp' = [op |-> "generate", fileKey |-> k, path |-> "enqueued",
                  cbArgs |-> <<>>]
    /\ UNCHANGED <<cache, rafTicks>>

generate(k) ==
  IF CacheHas(cache, k) THEN
    \* lines 182-186: the cached result goes to the callback, nothing else
    /\ lastOp' = [op |-> "generate", fileKey |-> k, path |-> "hit",
                  cbArgs |-> <<CacheGet(cache, k)>>]
    /\ clearedKeys' = clearedKeys \ {k}
    /\ UNCHANGED <<queue, activeCount, cache, pendingKeys, running, rafTicks,
                   nextId, cbCount, dedupWindow>>
  ELSE IF k \in pendingKeys THEN
    \* lines 188-190: the call returns, the callback is dropped
    /\ lastOp' = [op |-> "generate", fileKey |-> k, path |-> "pending",
                  cbArgs |-> <<>>]
    /\ clearedKeys' = clearedKeys \ {k}
    /\ UNCHANGED <<queue, activeCount, cache, pendingKeys, running, rafTicks,
                   nextId, cbCount, dedupWindow>>
  ELSE
    \* lines 192-208: mark pending, push the task, run processQueue
    /\ pendingKeys' = pendingKeys \cup {k}
    /\ processQueue(Append(queue, Task(k, nextId)), activeCount, running)
    /\ nextId' = nextId + 1
    /\ cbCount' = Append(cbCount, 0)
    /\ dedupWindow' = IF \E t \in Incomplete : t.fileKey = k
                        THEN dedupWindow
                        ELSE dedupWindow \cup {Task(k, nextId)}
    /\ clearedKeys' = clearedKeys \ {k}
    /\ lastOp' = [op |-> "generate", fileKey |-> k, path |-> "enqueued",
                  cbArgs |-> <<>>]
    /\ UNCHANGED <<cache, rafTicks>>

\* The model admits at most MaxCalls jobs; calls served from the cache or
\* dropped as duplicates stay possible after that.
Generate(k) ==
  /\ nextId <= MaxCalls \/ CacheHas(cache, k) \/ k \in pendingKeys
  /\ generate(k)

----------------------------------------------------------------------------
(* The requestAnimationFrame callback of line 227: () => this.processQueue() *)

Tick ==
  /\ rafTicks > 0
  /\ rafTicks' = rafTicks - 1
  /\ processQueue(queue, activeCount, running)
  /\ lastOp' = NoOp("processQueue")
  /\ UNCHANGED <<cache, pendingKeys, nextId, cbCount, dedupWindow, clearedKeys>>

----------------------------------------------------------------------------
(* The continuation of processQueue after `await this.createThumbnail`,    *)
(* lines 219-228, with the task's callback wrapper, lines 197-206.         *)

\* The arguments task.callback is called with, in order: the result in the
\* try block; ('', 0) in the catch block, which runs when createThumbnail
\* rejected or when the try block's task.callback threw (the caller's
\* callback threw at line 205, after the wrapper's writes).
CallbackArgs(outcome, throws) ==
  IF outcome = REJECT THEN <<EMPTY>>
  ELSE IF throws THEN <<outcome, EMPTY>>
  ELSE <<outcome>>

\* The cache after the wrapper ran once for each of args.
RECURSIVE WrapperCache(_, _, _)
WrapperCache(c, k, args) ==
  IF args = <<>> THEN c
  ELSE WrapperCache(CachePut(c, k, Head(args)), k, Tail(args))

\* Variant: the slot is released in the try block only, so a failed
\* extraction keeps its slot and schedules no dispatch.
Complete_FailureKeepsSlot(t, outcome, throws) ==
  LET args == CallbackArgs(outcome, throws) IN
  /\ t \in running
  /\ running' = running \ {t}
  /\ cache' = WrapperCache(cache, t.fileKey, args)
  /\ pendingKeys' = pendingKeys \ {t.fileKey}
  /\ cbCount' = [cbCount EXCEPT ![t.callback] = @ + Len(args)]
  /\ activeCount' = IF outcome = REJECT THEN activeCount ELSE activeCount - 1
  /\ rafTicks' = IF outcome = REJECT THEN rafTicks ELSE rafTicks + 1
  /\ dedupWindow' = dedupWindow \ {t}
  /\ lastOp' = [op |-> "complete", fileKey |-> t.fileKey, path |-> "-",
                cbArgs |-> args]
  /\ UNCHANGED <<queue, nextId, clearedKeys>>

\* Variant: the finally block decrements the counter and schedules no
\* dispatch.
Complete_NoTick(t, outcome, throws) ==
  LET args == CallbackArgs(outcome, throws) IN
  /\ t \in running
  /\ running' = running \ {t}
  /\ cache' = WrapperCache(cache, t.fileKey, args)
  /\ pendingKeys' = pendingKeys \ {t.fileKey}
  /\ cbCount' = [cbCount EXCEPT ![t.callback] = @ + Len(args)]
  /\ activeCount' = activeCount - 1
  /\ rafTicks' = rafTicks
  /\ dedupWindow' = dedupWindow \ {t}
  /\ lastOp' = [op |-> "complete", fileKey |-> t.fileKey, path |-> "-",
                cbArgs |-> args]
  /\ UNCHANGED <<queue, nextId, clearedKeys>>

\* Variant: the finally block runs processQueue itself instead of
\* scheduling it.
Complete_DispatchesNow(t, outcome, throws) ==
  LET args == CallbackArgs(outcome, throws) IN
  /\ t \in running
  /\ processQueue(queue, activeCount - 1, running \ {t})
  /\ cache' = WrapperCache(cache, t.fileKey, args)
  /\ pendingKeys' = pendingKeys \ {t.fileKey}
  /\ cbCount' = [cbCount EXCEPT ![t.callback] = @ + Len(args)]
  /\ rafTicks' = rafTicks
  /\ dedupWindow' = dedupWindow \ {t}
  /\ lastOp' = [op |-> "complete", fileKey |-> t.fileKey, path |-> "-",
                cbArgs |-> args]
  /\ UNCHANGED <<nextId, clearedKeys>>

\* Variant: the wrapper does not remove the key from pendingKeys.
Complete_KeepsPending(t, outcome, throws) ==
  LET args == CallbackArgs(outcome, throws) IN
  /\ t \in running
  /\ running' = running \ {t}
  /\ cache' = WrapperCache(cache, t.fileKey, args)
  /\ pendingKeys' = pendingKeys
  /\ cbCount' = [cbCount EXCEPT ![t.callback] = @ + Len(args)]
  /\ activeCount' = activeCount - 1
  /\ rafTicks' = rafTicks + 1
  /\ dedupWindow' = dedupWindow \ {t}
  /\ lastOp' = [op |-> "complete", fileKey |-> t.fileKey, path |-> "-",
                cbArgs |-> args]
  /\ UNCHANGED <<queue, nextId, clearedKeys>>

\* Variant: the catch branch delivers ('', 0) but leaves the key pending.
Complete_FailureKeepsPending(t, outcome, throws) ==
  LET args == CallbackArgs(outcome, throws) IN
  /\ t \in running
  /\ running' = running \ {t}
  /\ cache' = WrapperCache(cache, t.fileKey, args)
  /\ pendingKeys' = IF outcome = REJECT THEN pendingKeys
                    ELSE pendingKeys \ {t.fileKey}
  /\ cbCount' = [cbCount EXCEPT ![t.callback] = @ + Len(args)]
  /\ activeCount' = activeCount - 1
  /\ rafTicks' = rafTicks + 1
  /\ dedupWindow' = dedupWindow \ {t}
  /\ lastOp' = [op |-> "complete", fileKey |-> t.fileKey, path |-> "-",
                cbArgs |-> args]
  /\ UNCHANGED <<queue, nextId, clearedKeys>>

Complete(t, outcome, throws) ==
  LET args == CallbackArgs(outcome, throws) IN
  /\ t \in running
  /\ running' = running \ {t}
  /\ cache' = WrapperCache(cache, t.fileKey, args)
  /\ pendingKeys' = pendingKeys \ {t.fileKey}
  /\ cbCount' = [cbCount EXCEPT ![t.callback] = @ + Len(args)]
  /\ activeCount' = activeCount - 1
  /\ rafTicks' = rafTicks + 1
  /\ dedupWindow' = dedupWindow \ {t}
  /\ lastOp' = [op |-> "complete", fileKey |-> t.fileKey, path |-> "-",
                cbArgs |-> args]
  /\ UNCHANGED <<queue, nextId, clearedKeys>>

----------------------------------------------------------------------------
(* clearCache, lines 372-376 *)

\* Variant: clearCache also resets the counter of executing jobs.
clearCache_ResetsCount ==
  /\ cache' = <<>>
  /\ pendingKeys' = {}
  /\ queue' = <<>>
  /\ activeCount' = 0
  /\ dedupWindow' = {}
  /\ clearedKeys' = CacheKeys(cache)
  /\ lastOp' = NoOp("clearCache")
  /\ UNCHANGED <<running, rafTicks, nextId, cbCount>>

clearCache ==
  /\ cache' = <<>>
  /\ pendingKeys' = {}
  /\ queue' = <<>>
  /\ dedupWindow' = {}
  /\ clearedKeys' = CacheKeys(cache)
  /\ lastOp' = NoOp("clearCache")
  /\ UNCHANGED <<activeCount, running, rafTicks, nextId, cbCount>>

----------------------------------------------------------------------------
(* The service under any caller *)

Settle ==
  \E t \in running, o \in Outcomes, th \in BOOLEAN :
    /\ th => t.callback \in ThrowingCallbacks
    /\ Complete(t, o, th)

\* History: clearCache leaves the executing tasks behind as stale ones; a
\* stale task stays stale until it completes.  The handlers of the service
\* do not touch the extraction followed in SpecExtract.
\* Lines 219-226: the wrapper (cache.set, pendingKeys.delete, callback) runs
\* inside the try or catch block, the finally block with activeCount-- and
\* requestAnimationFrame after it: the caller callback finds the counter and
\* the scheduled ticks as they were before the completion.
CallbackView ==
  [activeCount |-> activeCount, rafTicks |-> rafTicks,
   pending |-> lastOp'.fileKey \in pendingKeys']

\* History of the callbacks and of the requests dropped by clearCache.
History ==
  /\ cbView' = IF lastOp'.op = "complete" THEN CallbackView ELSE NoView
  /\ droppedKeys' =
       IF lastOp'.op = "clearCache" THEN {queue[i].fileKey : i \in 1..Len(queue)}
       ELSE IF lastOp'.op = "generate" THEN droppedKeys \ {lastOp'.fileKey}
       ELSE droppedKeys

Track == staleJobs' = staleJobs \cap running' /\ UNCHANGED ex /\ History

TrackClear == staleJobs' = running /\ UNCHANGED ex /\ History

Next ==
  \/ (\E k \in Keys : Generate(k)) /\ Track
  \/ Tick /\ Track
  \/ Settle /\ Track
  \/ clearCache /\ TrackClear

Spec == Init /\ [][Next]_vars

\* Every scheduled animation-frame callback runs, and every started
\* extraction settles (each attempt is bounded by a timer).
Fairness == WF_vars(Tick /\ Track) /\ WF_vars(Settle /\ Track)

FairSpec == Spec /\ Fairness

----------------------------------------------------------------------------
(* Scenario: BurstN requests with distinct keys issued back to back from   *)
(* the idle service (one synchronous run of the caller), then only         *)
(* completions and animation-frame callbacks.                              *)

BurstIssued == nextId > BurstN

BurstGenerate == ~BurstIssued /\ generate(BurstKeys[nextId])

NextBurst ==
  \/ BurstGenerate /\ Track
  \/ BurstIssued /\ Tick /\ Track
  \/ BurstIssued /\ Settle /\ Track

SpecBurst == Init /\ [][NextBurst]_vars /\ Fairness

----------------------------------------------------------------------------
(* Scenario: StreamLen requests with distinct keys arriving at any time,   *)
(* interleaved with completions, animation-frame callbacks and clearCache. *)

StreamGenerate == nextId <= StreamLen /\ generate(BurstKeys[nextId])

NextStream ==
  \/ StreamGenerate /\ Track
  \/ Tick /\ Track
  \/ Settle /\ Track
  \/ clearCache /\ TrackClear

SpecStream == Init /\ [][NextStream]_vars

----------------------------------------------------------------------------
(* A caller callback that calls generate from inside: the completion of a  *)
(* job (lines 219-228) with the nested generate call (lines 181-209) run   *)
(* at line 205, before the finally block.                                  *)

\* Variant: the wrapper calls the caller callback before its writes.
CallbackState_CallbackFirst(c, p, k, args) ==
  [cache |-> c, pending |-> p]

\* Lines 198-204: what the caller callback finds when the wrapper calls it
\* (for the last time) at line 205: the wrapper has evicted, written
\* cache[k] and removed k from pendingKeys.
CallbackState(c, p, k, args) ==
  [cache |-> WrapperCache(c, k, args), pending |-> p \ {k}]

\* Lines 182-192: the branch generate takes for key k.
generatePath(c, p, k) ==
  IF CacheHas(c, k) THEN "hit"
  ELSE IF k \in p THEN "pending"
  ELSE "enqueued"

\* The completion of task t whose caller callback calls generate(_, k2, cb2).
\* The nested call finds activeCount not yet decremented (line 226 runs
\* after it).
CompleteCalling(t, outcome, throws, k2) ==
  LET args == CallbackArgs(outcome, throws)
      s    == CallbackState(cache, pendingKeys, t.fileKey, args)
      path == generatePath(s.cache, s.pending, k2)
      q2   == Append(queue, Task(k2, nextId))
      starts == activeCount < MAX_CONCURRENT_THUMBNAILS
  IN
  /\ t \in running
  /\ cache' = s.cache
  /\ rafTicks' = rafTicks + 1
  /\ clearedKeys' = clearedKeys \ {k2}
  /\ lastOp' = [op |-> "completeCalling", fileKey |-> t.fileKey, path |-> path,
                cbArgs |-> args, nestedKey |-> k2,
                nestedArgs |-> IF path = "hit" THEN <<CacheGet(s.cache, k2)>>
                               ELSE <<>>]
  /\ IF path = "enqueued" THEN
       /\ nextId <= MaxCalls
       /\ pendingKeys' = s.pending \cup {k2}
       /\ queue' = IF starts THEN Tail(q2) ELSE q2
       /\ running' = (running \ {t}) \cup (IF starts THEN {Head(q2)} ELSE {})
       /\ activeCount' = (IF starts THEN activeCount + 1 ELSE activeCount) - 1
       /\ nextId' = nextId + 1
       /\ cbCount' = Append([cbCount EXCEPT ![t.callback] = @ + Len(args)], 0)
       /\ dedupWindow' =
            IF \E u \in Incomplete \ {t} : u.fileKey = k2
              THEN dedupWindow \ {t}
              ELSE (dedupWindow \ {t}) \cup {Task(k2, nextId)}
     ELSE
       /\ pendingKeys' = s.pending
       /\ running' = running \ {t}
       /\ activeCount' = activeCount - 1
       /\ cbCount' = [cbCount EXCEPT ![t.callback] = @ + Len(args)]
       /\ dedupWindow' = dedupWindow \ {t}
       /\ UNCHANGED <<queue, nextId>>

\* The keys requested in the scenario with nested calls.
ReentrantKeys == {"a", "b"}

SettleCalling ==
  \E t \in running, o \in Outcomes, th \in BOOLEAN, k2 \in ReentrantKeys :
    /\ th => t.callback \in ThrowingCallbacks
    /\ CompleteCalling(t, o, th, k2)

\* History for a completion with a nested generate.
TrackCalling ==
  /\ staleJobs' = staleJobs \cap running'
  /\ cbView' = CallbackView
  /\ droppedKeys' = droppedKeys \ {lastOp'.nestedKey}
  /\ UNCHANGED ex

NextReentrant ==
  \/ (\E k \in ReentrantKeys : Generate(k)) /\ Track
  \/ Tick /\ Track
  \/ Settle /\ Track
  \/ SettleCalling /\ TrackCalling
  \/ clearCache /\ TrackClear

SpecReentrant == Init /\ [][NextReentrant]_vars

----------------------------------------------------------------------------
(* Scenario: any caller that never calls clearCache, with enough keys to   *)
(* fill the slots and the queue.                                           *)

NoClearKeys == Keys \cup {"c"}

NextNoClear ==
  \/ (\E k \in NoClearKeys : Generate(k)) /\ Track
  \/ Tick /\ Track
  \/ Settle /\ Track

SpecNoClear == Init /\ [][NextNoClear]_vars

----------------------------------------------------------------------------
(* Scenario: LiveLen requests with distinct keys arriving at any time,     *)
(* interleaved with clearCache; every scheduled animation-frame callback   *)
(* runs and every started extraction settles.                              *)

LiveGenerate == nextId <= LiveLen /\ generate(BurstKeys[nextId])

NextLive ==
  \/ LiveGenerate /\ Track
  \/ Tick /\ Track
  \/ Settle /\ Track
  \/ clearCache /\ TrackClear

SpecLive == Init /\ [][NextLive]_vars /\ Fairness

\* The task of the i-th request of the scenario.
LiveTask(i) == Task(BurstKeys[i], i)

QueuedTasks == {queue[i] : i \in 1..Len(queue)}

----------------------------------------------------------------------------
(* The extraction of one job: createThumbnail and what it awaits.  Times    *)
(* and durations are in tenths of a second.  Each action is one handler of  *)
(* the renderer's event loop together with the promise continuations it     *)
(* releases; the completion of the job (processQueue, lines 219-228) is the *)
(* last of these continuations.                                             *)

\* The build selects the external extractor as the primary strategy.
THUMBNAIL_GENERATOR == "ffmpeg"

\* video.duration of a stream without an end.
INFINITE == 999

\* video.duration when the duration is not known: NaN.
NAN == -1

MediaDurations == {NAN, 0, 20, 30, 31, 100, INFINITE}

isFinite(d) == d \notin {INFINITE, NAN}

\* The JavaScript comparison a > b: false when a is NaN.
Greater(a, b) == a # NAN /\ a > b

SEEK_THRESHOLD == 30
SEEK_OFFSET == 15

Min(a, b) == IF a <= b THEN a ELSE b

\* Variant: the threshold itself already selects the offset (>= for >).
InlineSeekTime_AtThreshold(d) ==
  Min(SEEK_OFFSET, IF d # NAN /\ d >= SEEK_THRESHOLD THEN SEEK_OFFSET ELSE 0)

\* Line 325: the timestamp the inline strategy seeks to.
InlineSeekTime(d) ==
  Min(SEEK_OFFSET, IF Greater(d, SEEK_THRESHOLD) THEN SEEK_OFFSET ELSE 0)

\* ffmpeg.ts lines 66 and 73-82: the filter select=eq(n\,0) with -frames:v 1
\* takes the first frame, whatever the duration; no -ss is passed.
FfmpegSeekTime(d) == 0

\* How the external process can end (ffmpeg.ts lines 53-109).
ProcessOutcomes ==
  {"ffmpeg_missing", "mkdir_failed", "spawn_error", "exit_nonzero",
   "read_failed", "image", "image_no_duration"}

\* The images of the two strategies: the file written by the external
\* process, and canvas.toDataURL of the inline one.
FfmpegImage == "data:image/jpeg;base64,file"
InlineImage == "data:image/jpeg;base64,canvas"

\* The outcomes in which the process was spawned and read its input.
ProcessRan == {"exit_nonzero", "read_failed", "image", "image_no_duration"}

IpcResult(ok, url, hasDur, d) ==
  [ok |-> ok, dataUrl |-> url, hasDuration |-> hasDur, duration |-> d]

\* ffmpeg.ts createThumbnail: the ThumbnailResult it resolves with.  The
\* duration is parsed from the process's stderr (parseDuration) and is
\* reported with a successful result only.
ffmpegCreateThumbnail(po, d) ==
  IF po = "image" /\ isFinite(d)
    THEN IpcResult(TRUE, FfmpegImage, TRUE, d)
  ELSE IF po \in {"image", "image_no_duration"}
    THEN IpcResult(TRUE, FfmpegImage, FALSE, 0)
  ELSE IpcResult(FALSE, "", FALSE, 0)

\* Lines 297-310: the media element is created and the 10 s timer armed.
createThumbnailInBrowser(e) ==
  [e EXCEPT !.phase = "inline", !.video = "loading", !.timer = TRUE,
            !.inlineRuns = @ + 1]

\* Variant: the guard of line 241 is missing.
createThumbnailWithFfmpeg_NoGuard(e) ==
  [e EXCEPT !.phase = "ffmpeg", !.probe = "pending", !.ffmpegCalls = @ + 1]

\* Line 241 with line 243 and the call of line 246, or null: the caller
\* (lines 233-237) then starts the inline strategy.
createThumbnailWithFfmpeg(e) ==
  IF ~e.hasPath \/ ~e.hasApi
    THEN createThumbnailInBrowser(e)
    ELSE [e EXCEPT !.phase = "ffmpeg", !.probe = "pending", !.ffmpegCalls = @ + 1]

\* Lines 231-238, up to the first await that has to wait.
createThumbnail(e) ==
  IF THUMBNAIL_GENERATOR = "ffmpeg"
    THEN createThumbnailWithFfmpeg(e)
    ELSE createThumbnailInBrowser(e)

\* Variant: a failed external extraction is final, the inline strategy is
\* not tried.
FfmpegReturn_NoFallback(e, r, duration) ==
  IF ~r.ok \/ r.dataUrl = ""
    THEN [e EXCEPT !.phase = "rejected"]
    ELSE [e EXCEPT !.phase = "resolved",
                   !.result = [dataUrl |-> r.dataUrl, duration |-> duration]]

\* Lines 252-253 and 234-237: the external result is returned, or null and
\* the inline strategy is started.
FfmpegReturn(e, r, duration) ==
  IF ~r.ok \/ r.dataUrl = ""
    THEN createThumbnailInBrowser(e)
    ELSE [e EXCEPT !.phase = "resolved",
                   !.result = [dataUrl |-> r.dataUrl, duration |-> duration]]

\* Line 250: the duration of the result, or else the awaited probe.
FfmpegAnswered(e, r) ==
  LET e1 == [e EXCEPT !.ipc = r]
  IN  IF r.hasDuration THEN FfmpegReturn(e1, r, r.duration)
      ELSE IF e.probe = "settled" THEN FfmpegReturn(e1, r, e.probeVal)
      ELSE [e1 EXCEPT !.phase = "awaitProbe", !.probeAwaited = TRUE]

\* Lines 270-293: getDurationFromMetadata resolves with v, once.
ProbeSettled(e, v) ==
  LET e1 == [e EXCEPT !.probe = "settled", !.probeVal = v]
  IN  IF e.phase = "awaitProbe" THEN FfmpegReturn(e1, e.ipc, v) ELSE e1

\* Variant: cleanup releases the element and leaves the 10 s timer armed.
InlineCleanup_KeepsTimer(e) == [e EXCEPT !.video = "released"]

\* Lines 312-321: cleanup.  The 100 ms timer of line 324 is not cleared.
InlineCleanup(e) == [e EXCEPT !.video = "released", !.timer = FALSE]

\* resolve or reject of the promise of line 298, called on the extraction
\* state e that cleanup left: the first call settles the promise, a later
\* call has no effect on it.  settleCalls counts the calls, cleanAtSettle
\* records whether the element was released and the timer cleared at each.
InlineSettle(e, outcome, result) ==
  LET e1 == [e EXCEPT !.settleCalls = @ + 1,
                      !.cleanAtSettle = @ /\ e.video = "released" /\ ~e.timer]
  IN  IF e.settleCalls = 0
        THEN [e1 EXCEPT !.phase = outcome, !.result = result]
        ELSE e1

\* The job whose extraction is followed.
FollowedTask == Task("a", 1)

\* The step of the followed job: the new extraction state, and the completion
\* of the job when createThumbnail has settled.
Deliver(e) ==
  IF e.phase \in {"resolved", "rejected"}
    THEN /\ ex' = [e EXCEPT !.phase = "done"]
         /\ Complete(FollowedTask,
                     IF e.phase = "resolved" THEN e.result ELSE REJECT, FALSE)
         /\ staleJobs' = staleJobs \cap running'
         /\ History
    ELSE /\ ex' = e
         /\ UNCHANGED <<queue, activeCount, cache, pendingKeys, running, rafTicks,
                        nextId, cbCount, dedupWindow, clearedKeys, lastOp,
                        staleJobs, cbView, droppedKeys>>

\* The caller requests key "a" of the idle service, with or without a file
\* path, with or without the preload API: the job starts at once.
ExStart ==
  /\ ex.phase = "idle"
  /\ nextId = 1
  /\ generate("a")
  /\ \E hasPath \in BOOLEAN, hasApi \in BOOLEAN, d \in MediaDurations :
       ex' = createThumbnail([ex EXCEPT !.hasPath = hasPath, !.hasApi = hasApi,
                                        !.dur = d])
  /\ UNCHANGED staleJobs
  /\ History

\* The invoke of line 246 resolves with the result of the main process.
IpcResolve ==
  /\ ex.phase = "ffmpeg"
  /\ \E po \in ProcessOutcomes :
       Deliver(FfmpegAnswered(
                 [ex EXCEPT !.ffmpegTime = IF po \in ProcessRan
                                             THEN FfmpegSeekTime(ex.dur) ELSE -1],
                 ffmpegCreateThumbnail(po, ex.dur)))

\* The invoke of line 246 rejects: catch, line 254.
IpcReject ==
  /\ ex.phase = "ffmpeg"
  /\ Deliver(createThumbnailInBrowser(ex))

\* Lines 284-288.
ProbeLoadedMetadata ==
  /\ ex.probe = "pending"
  /\ Deliver(ProbeSettled(ex, IF isFinite(ex.dur) THEN ex.dur ELSE 0))

\* Lines 290-293.
ProbeError ==
  /\ ex.probe = "pending"
  /\ Deliver(ProbeSettled(ex, 0))

\* Variant: the 5 s timer only cleans up and does not resolve.
ProbeTimeout_NoResolve ==
  /\ ex.probe = "pending"
  /\ Deliver([ex EXCEPT !.probe = "released"])

\* Lines 270-273: the 5 s timer.
ProbeTimeout ==
  /\ ex.probe = "pending"
  /\ Deliver(ProbeSettled(ex, 0))

\* Lines 323-328: onloadeddata arms the 100 ms timer.
VideoLoadedData ==
  /\ ex.video = "loading"
  /\ Deliver([ex EXCEPT !.video = "loaded", !.delay = TRUE])

\* Lines 324-327: the 100 ms timer sets currentTime; on a released element
\* this has no effect.
SeekTimer ==
  /\ ex.delay
  /\ Deliver(IF ex.video = "loaded"
               THEN [ex EXCEPT !.delay = FALSE, !.video = "seeking",
                               !.seekTime = InlineSeekTime(ex.dur)]
               ELSE [ex EXCEPT !.delay = FALSE, !.late = @ + 1])

\* Lines 330-363: onseeked.
VideoSeeked ==
  /\ ex.video = "seeking"
  /\ \E raster \in {"zero_dimensions", "no_context", "draw_throws", "image"} :
       Deliver(IF raster = "image"
                 THEN InlineSettle(InlineCleanup(ex), "resolved",
                                   [dataUrl |-> InlineImage, duration |-> ex.dur])
                 ELSE InlineSettle(InlineCleanup(ex), "rejected", EMPTY))

\* Lines 365-368: onerror.
VideoError ==
  /\ ex.video \in {"loading", "loaded", "seeking"}
  /\ Deliver(InlineSettle(InlineCleanup(ex), "rejected", EMPTY))

\* Lines 307-310: the 10 s timer.
InlineTimeout ==
  /\ ex.timer
  /\ Deliver(InlineSettle(InlineCleanup([ex EXCEPT !.timer = FALSE]),
                          "rejected", EMPTY))

NextExtract ==
  \/ ExStart
  \/ IpcResolve
  \/ IpcReject
  \/ ProbeLoadedMetadata
  \/ ProbeError
  \/ ProbeTimeout
  \/ VideoLoadedData
  \/ SeekTimer
  \/ VideoSeeked
  \/ VideoError
  \/ InlineTimeout
  \/ Tick /\ Track

SpecExtract == Init /\ [][NextExtract]_vars

\* Timers fire and scheduled animation-frame callbacks run; the external
\* process and the media elements owe no event.
FairExtract ==
  /\ WF_vars(ProbeTimeout)
  /\ WF_vars(SeekTimer)
  /\ WF_vars(InlineTimeout)
  /\ WF_vars(Tick /\ Track)

FairSpecExtract == SpecExtract /\ FairExtract

----------------------------------------------------------------------------
(* The external extractor: createThumbnail of src/electron/ffmpeg.ts, lines *)
(* 46-111, one call in the main process.  Each action is one turn of the    *)
(* main process's event loop.  The service in the renderer stays idle.      *)

ServiceIdle ==
  UNCHANGED <<queue, activeCount, cache, pendingKeys, running, rafTicks,
              nextId, cbCount, dedupWindow, clearedKeys, lastOp, staleJobs,
              cbView, droppedKeys>>

\* A ThumbnailResult; error "" stands for an absent error field.
ThumbnailResult(ok, error, url, hasDur, d) ==
  [ok |-> ok, error |-> error, dataUrl |-> url, hasDuration |-> hasDur,
   duration |-> d]

NoResult == ThumbnailResult(FALSE, "", "", FALSE, 0)

\* What the call meets: the options, the installation, the file system and
\* the child process.
FfmpegInputs ==
  [inputPath : BOOLEAN, ffmpegPath : BOOLEAN, mkdirOk : BOOLEAN,
   spawnThrows : BOOLEAN, readOk : BOOLEAN, stderrDuration : {NAN, 100}]

\* The call as it is entered.
FfmpegCall(in) ==
  [in |-> in, phase |-> "entered", errorFired |-> FALSE, closeFired |-> FALSE,
   exitCode |-> -1, fileRead |-> FALSE, resolveCalls |-> 0,
   state |-> "pending", result |-> NoResult]

\* ffmpeg.ts lines 113-121: the duration parsed from stderr, or undefined.
parseDuration(in) ==
  IF in.stderrDuration = NAN THEN [has |-> FALSE, d |-> 0]
  ELSE [has |-> TRUE, d |-> in.stderrDuration]

\* resolve(r), or `return r` of the async function: the first one fulfils
\* the returned promise, a later one has no effect.
FfmpegResolve(e, r) ==
  LET e1 == [e EXCEPT !.resolveCalls = @ + 1]
  IN  IF e.state = "pending"
        THEN [e1 EXCEPT !.state = "fulfilled", !.result = r]
        ELSE e1

\* An exception that leaves the async function rejects the returned promise.
FfmpegThrow(e) ==
  IF e.state = "pending" THEN [e EXCEPT !.state = "rejected"] ELSE e

\* Variant: the mkdir of line 61 is awaited outside a try block.
FfmpegEnsureDir_Uncaught(e) ==
  IF ~e.in.mkdirOk
    THEN FfmpegThrow([e EXCEPT !.phase = "returned"])
  ELSE IF e.in.spawnThrows
    THEN FfmpegResolve([e EXCEPT !.phase = "returned"],
                       ThumbnailResult(FALSE, "spawn_threw", "", FALSE, 0))
  ELSE [e EXCEPT !.phase = "spawned"]

\* Lines 49-56: the synchronous prefix up to the await of line 61.
FfmpegEnter(e) ==
  IF ~e.in.inputPath
    THEN FfmpegResolve([e EXCEPT !.phase = "returned"],
                       ThumbnailResult(FALSE, "missing_path", "", FALSE, 0))
  ELSE IF ~e.in.ffmpegPath
    THEN FfmpegResolve([e EXCEPT !.phase = "returned"],
                       ThumbnailResult(FALSE, "ffmpeg_missing", "", FALSE, 0))
  ELSE [e EXCEPT !.phase = "ensureDir"]

\* Lines 60-64 and 84-91, 107-109: after mkdir, the child is spawned inside
\* the promise executor.
FfmpegEnsureDir(e) ==
  IF ~e.in.mkdirOk
    THEN FfmpegResolve([e EXCEPT !.phase = "returned"],
                       ThumbnailResult(FALSE, "mkdir_failed", "", FALSE, 0))
  ELSE IF e.in.spawnThrows
    THEN FfmpegResolve([e EXCEPT !.phase = "returned"],
                       ThumbnailResult(FALSE, "spawn_threw", "", FALSE, 0))
  ELSE [e EXCEPT !.phase = "spawned"]

\* Line 91: the child's 'error' event.
FfmpegOnError(e) ==
  FfmpegResolve([e EXCEPT !.errorFired = TRUE],
                ThumbnailResult(FALSE, "spawn_error", "", FALSE, 0))

\* Lines 92-97: the child's 'close' event with its exit code.
FfmpegOnClose(e, code) ==
  LET e1 == [e EXCEPT !.closeFired = TRUE, !.exitCode = code]
  IN  IF code # 0
        THEN FfmpegResolve(e1, ThumbnailResult(FALSE, "ffmpeg_exit", "", FALSE, 0))
        ELSE [e1 EXCEPT !.phase = "reading"]

\* Lines 99-105: readFile of the output file settles.
FfmpegOnRead(e) ==
  LET dur == parseDuration(e.in)
      e1  == [e EXCEPT !.phase = "closed"]
  IN  IF e.in.readOk
        THEN FfmpegResolve([e1 EXCEPT !.fileRead = TRUE],
                           ThumbnailResult(TRUE, "", FfmpegImage, dur.has, dur.d))
        ELSE FfmpegResolve(e1, ThumbnailResult(FALSE, "read_failed", "", FALSE, 0))

InitFfmpeg ==
  /\ queue = <<>> /\ activeCount = 0 /\ cache = <<>> /\ pendingKeys = {}
  /\ running = {} /\ rafTicks = 0 /\ nextId = 1 /\ cbCount = <<>>
  /\ dedupWindow = {} /\ clearedKeys = {} /\ lastOp = NoOp("init")
  /\ staleJobs = {} /\ cbView = NoView /\ droppedKeys = {}
  /\ ex \in {FfmpegCall(in) : in \in FfmpegInputs}

FfEnter ==
  /\ ex.phase = "entered"
  /\ ex' = FfmpegEnter(ex)
  /\ ServiceIdle

FfEnsureDir ==
  /\ ex.phase = "ensureDir"
  /\ ex' = FfmpegEnsureDir(ex)
  /\ ServiceIdle

\* The child emits 'error' (it could not be spawned, or failed later) at
\* most once, before or after 'close'.
FfChildError ==
  /\ ex.phase \in {"spawned", "reading", "closed"}
  /\ ~ex.errorFired
  /\ ex' = FfmpegOnError(ex)
  /\ ServiceIdle

FfChildClose ==
  /\ ex.phase = "spawned"
  /\ ~ex.closeFired
  /\ \E code \in {0, 1} : ex' = FfmpegOnClose(ex, code)
  /\ ServiceIdle

FfRead ==
  /\ ex.phase = "reading"
  /\ ex' = FfmpegOnRead(ex)
  /\ ServiceIdle

NextFfmpeg ==
  \/ FfEnter
  \/ FfEnsureDir
  \/ FfChildError
  \/ FfChildClose
  \/ FfRead

SpecFfmpeg == InitFfmpeg /\ [][NextFfmpeg]_vars

----------------------------------------------------------------------------
(* Bounded concurrency *)

\* C1: in every reachable state 0 <= activeCount <= MAX_CONCURRENT_THUMBNAILS.
ActiveCountBounded ==
  /\ activeCount >= 0
  /\ activeCount <= MAX_CONCURRENT_THUMBNAILS

\* The limit was reached and a task had to wait in the queue.
ActiveCountBounded_Witness ==
  /\ activeCount = MAX_CONCURRENT_THUMBNAILS
  /\ Len(queue) > 0

----------------------------------------------------------------------------
(* Dedup *)

OneJobPerKey ==
  \A t, u \in Incomplete : t.fileKey = u.fileKey => t = u

----------------------------------------------------------------------------
(* Cache hit *)

\* C4: a generate call made while the cache holds a result for its key
\* invokes the callback with exactly that result during the call and leaves
\* queue, pendingKeys, activeCount and the cache unchanged; no job is
\* enqueued or started.
CacheHitFrame ==
  [][\A k \in Keys :
       (CacheHas(cache, k) /\ lastOp'.op = "generate" /\ lastOp'.fileKey = k)
         => /\ lastOp'.cbArgs = <<CacheGet(cache, k)>>
            /\ UNCHANGED <<queue, pendingKeys, activeCount, cache, running,
                           rafTicks, nextId>>]_vars

\* A cache hit happened while other work was queued and executing.
CacheHitFrame_Witness ==
  /\ lastOp.op = "generate"
  /\ lastOp.path = "hit"
  /\ CacheHas(cache, lastOp.fileKey)
  /\ lastOp.cbArgs = <<CacheGet(cache, lastOp.fileKey)>>
  /\ running # {}

----------------------------------------------------------------------------
(* Callback delivery *)

\* C5: the callback of every call admitted as a job is eventually invoked
\* exactly once, whatever generate, completion and clearCache operations
\* follow the admission: it is never left uninvoked (stated here), and it is
\* never invoked twice (CallbackAtMostOnce).  A call served from the cache is
\* called back once inside the call: CacheHitFrame.
CallbackEventually ==
  \A i \in 1..MaxCalls :
    (Len(cbCount) >= i) ~> (Len(cbCount) >= i /\ cbCount[i] >= 1)

CallbackAtMostOnce == \A i \in 1..Len(cbCount) : cbCount[i] <= 1

----------------------------------------------------------------------------
(* Start order *)

\* C6: jobs are started in admission order: a task that is started was
\* admitted before every task still waiting in the queue (callbacks are
\* numbered in admission order).
FifoStart ==
  [][\A t \in running' \ running :
       \A i \in 1..Len(queue') : t.callback < queue'[i].callback]_vars

\* Completion order is free: a later-started job has completed (its
\* callback was invoked) while an earlier-started one is still executing,
\* with more tasks waiting.
FifoStart_Witness ==
  /\ \E t \in running :
        \E i \in 1..Len(cbCount) : i > t.callback /\ cbCount[i] > 0
  /\ Len(queue) >= 2

----------------------------------------------------------------------------
(* The burst scenario *)

\* C7: from the idle service, right after BurstN = 10 back-to-back requests
\* with distinct uncached keys exactly MAX_CONCURRENT_THUMBNAILS jobs are
\* executing and the other 7 are queued; after that a completion starts
\* nothing itself and schedules one dispatch tick, every tick that finds a
\* queued job starts exactly one, the free slots always equal the ticks
\* pending while jobs wait, and eventually all callbacks have been invoked.
BurstAllResolved ==
  /\ BurstIssued
  /\ \A i \in 1..BurstN : cbCount[i] >= 1

----------------------------------------------------------------------------
(* The bounded cache *)

\* C8: in every reachable state the cache holds at most MAX_CACHE_SIZE
\* entries, whatever the key strings are.
CacheBounded == Len(cache) <= MAX_CACHE_SIZE

\* C9: when a job of a key that is not cached completes while the cache
\* holds exactly MAX_CACHE_SIZE entries, the earliest-inserted entry and only
\* that one is removed and the new result is appended, the size staying
\* MAX_CACHE_SIZE; with fewer entries nothing is removed.
EvictOldestOnly ==
  [][(lastOp'.op = "complete" /\ ~CacheHas(cache, lastOp'.fileKey)
        /\ Len(cache) <= MAX_CACHE_SIZE)
       => LET new == [key |-> lastOp'.fileKey,
                      val |-> lastOp'.cbArgs[Len(lastOp'.cbArgs)]]
          IN  IF Len(cache) = MAX_CACHE_SIZE
                THEN cache' = Append(Tail(cache), new)
                ELSE cache' = Append(cache, new)]_vars

----------------------------------------------------------------------------
(* clearCache *)

\* C10: the first generate for a key that was cached when clearCache ran
\* is not answered from the cache: it marks the key pending and enqueues a
\* fresh job, and no callback is invoked during the call.
FreshAfterClear ==
  [][\A k \in clearedKeys :
       (lastOp'.op = "generate" /\ lastOp'.fileKey = k /\ k \notin clearedKeys')
         => /\ lastOp'.path = "enqueued"
            /\ lastOp'.cbArgs = <<>>
            /\ k \in pendingKeys'
            /\ \/ Task(k, nextId) \in running'
               \/ \E i \in 1..Len(queue') : queue'[i] = Task(k, nextId)]_vars

\* C11: clearCache cancels the effect of the jobs in flight: when a job
\* that was executing when clearCache ran completes afterwards, its result is
\* not left in the cache as the value served for its key: either the write is
\* suppressed, or a job of that key admitted after the clear is still queued
\* or executing and will overwrite it.
StaleResultNotLeft ==
  [][\A t \in staleJobs \ running' :
       \/ cache' = cache
       \/ ~CacheHas(cache', t.fileKey)
       \/ \E u \in Incomplete' \ staleJobs' : u.fileKey = t.fileKey]_vars

\* C12: clearCache empties cache, pendingKeys and queue in one step, and
\* afterwards a key is pending exactly when a job of that key admitted after
\* the last clear is queued or executing: the completion of a job dispatched
\* before the clear does not change the pending state of a key admitted
\* after it.
PendingIffFreshJob ==
  /\ lastOp.op = "clearCache" => cache = <<>> /\ pendingKeys = {} /\ queue = <<>>
  /\ \A k \in Keys :
       k \in pendingKeys <=> \E u \in Incomplete \ staleJobs : u.fileKey = k

----------------------------------------------------------------------------
(* Failures *)

\* A completion whose extraction failed: the catch branch of processQueue
\* passes the empty result, once.
FailedCompletion(op) == op.op = "complete" /\ op.cbArgs = <<EMPTY>>

\* C13: a failed job completes with the empty result, which is written to
\* the cache under the job's key and delivered to its callback; and the job
\* is not retried: as long as the entry is neither evicted nor cleared, the
\* cache keeps answering the key with the empty result and a generate for the
\* key starts nothing (stated for the step that follows the failure, when no
\* job of the key admitted after the last clearCache is left).
FailureAsEmpty ==
  /\ [][FailedCompletion(lastOp')
          => /\ CacheHas(cache', lastOp'.fileKey)
             /\ CacheGet(cache', lastOp'.fileKey) = EMPTY]_vars
  /\ [][(/\ FailedCompletion(lastOp)
          /\ CacheHas(cache, lastOp.fileKey)
          /\ CacheHas(cache', lastOp.fileKey)
          /\ ~(cache[1].key = lastOp.fileKey /\ Len(cache) >= MAX_CACHE_SIZE)
          /\ \A u \in Incomplete : u.fileKey = lastOp.fileKey => u \in staleJobs)
          => /\ CacheGet(cache', lastOp.fileKey) = EMPTY
             /\ (lastOp'.op = "generate" /\ lastOp'.fileKey = lastOp.fileKey)
                  => /\ lastOp'.cbArgs = <<EMPTY>>
                     /\ UNCHANGED <<queue, running, activeCount>>]_vars

\* C14: a job that fails releases its slot exactly as a successful one does
\* (activeCount decremented once, one dispatch tick scheduled), leaves the
\* other executing jobs, the queue and the other callbacks untouched, and
\* the requests still queued for other keys are started and resolved
\* afterwards.
FailureContained ==
  /\ [][FailedCompletion(lastOp')
          => /\ activeCount' = activeCount - 1
             /\ rafTicks' = rafTicks + 1
             /\ running' \subseteq running
             /\ Cardinality(running') = Cardinality(running) - 1
             /\ queue' = queue
             /\ \A u \in running' : u.fileKey \in pendingKeys'
             /\ \A u \in running' : cbCount'[u.callback] = cbCount[u.callback]]_vars
  /\ (BurstIssued /\ FailedCompletion(lastOp) /\ Len(queue) > 0)
        ~> BurstAllResolved

\* A job failed while two others were executing and requests were queued.
FailureContained_Witness ==
  /\ FailedCompletion(lastOp)
  /\ Cardinality(running) = MAX_CONCURRENT_THUMBNAILS - 1
  /\ Len(queue) > 0

----------------------------------------------------------------------------
(* The extraction strategies *)

ExStarted == ex.phase # "idle"

ExCompleted == ex.phase = "done" /\ cbCount[1] >= 1 /\ activeCount = 0

\* C15: every extraction attempt of either strategy is bounded by a timer:
\* a dispatched job eventually completes and frees its slot even if the
\* external process never answers and the media elements fire no event.
AttemptsBounded == ExStarted ~> ExCompleted

\* The part of C15 that concerns the inline strategy and the duration probe.
InlineBounded == (ex.phase \in {"inline", "awaitProbe"}) ~> ExCompleted

\* What the inline strategy can deliver for the followed media.
InlineOutcomes == {EMPTY, [dataUrl |-> InlineImage, duration |-> ex.dur]}

\* The result the completed job passed to its wrapper: cached and delivered.
JobResult == CacheGet(cache, FollowedTask.fileKey)

\* C16: when the request carries no file path, or the preload API offers no
\* createThumbnail, the external strategy is never invoked: no extractor
\* call and no metadata probe is started, and the job's result is exactly
\* the outcome of the inline strategy.
NoProcessWithoutCapability ==
  (ExStarted /\ (~ex.hasPath \/ ~ex.hasApi))
    => /\ ex.ffmpegCalls = 0
       /\ ex.ffmpegTime = -1
       /\ ex.probe = "none"
       /\ ex.inlineRuns = 1
       /\ ex.phase \in {"inline", "done"}
       /\ ex.phase = "done" => cbCount[1] = 1 /\ JobResult \in InlineOutcomes

\* A request with a file path but without the API was resolved by the
\* inline strategy with an image.
NoProcessWithoutCapability_Witness ==
  /\ ex.phase = "done"
  /\ ex.hasPath /\ ~ex.hasApi
  /\ JobResult = [dataUrl |-> InlineImage, duration |-> ex.dur]

\* The external strategy has answered with an image.
ProcessSucceeded == ex.ipc.ok /\ ex.ipc.dataUrl # ""

\* C17: for a request with file path and API the external strategy is
\* attempted first; when it fails in any way (a result that is not ok, a
\* result without image, a rejected call) the inline strategy is attempted;
\* the job resolves with the empty result only if the inline strategy failed
\* too; and the inline strategy is not run when the external one succeeded.
FallbackPolicy ==
  /\ [](ExStarted /\ ex.hasPath /\ ex.hasApi
          => /\ ex.ffmpegCalls = 1
             /\ ex.phase \in {"ffmpeg", "awaitProbe"} => ex.inlineRuns = 0
             /\ ex.inlineRuns = 1 => ~ProcessSucceeded
             /\ (ex.phase = "done" /\ ProcessSucceeded)
                  => /\ ex.inlineRuns = 0
                     /\ JobResult.dataUrl = FfmpegImage)
  /\ [](ex.phase = "done" /\ JobResult = EMPTY
          => ex.inlineRuns = 1 /\ ex.video = "released")
  /\ [][(ex.phase \in {"ffmpeg", "awaitProbe"}
           /\ ex'.phase \notin {"ffmpeg", "awaitProbe"})
          => IF ex'.ipc.ok /\ ex'.ipc.dataUrl # ""
               THEN ex'.phase = "done" /\ ex'.inlineRuns = 0
               ELSE ex'.phase = "inline" /\ ex'.inlineRuns = 1]_vars

\* The external strategy failed and the inline strategy delivered the image.
FallbackPolicy_Witness ==
  /\ ex.phase = "done"
  /\ ex.ffmpegCalls = 1
  /\ ~ProcessSucceeded
  /\ ex.inlineRuns = 1
  /\ JobResult = [dataUrl |-> InlineImage, duration |-> ex.dur]

\* C18: both strategies apply the same frame selection: for every duration
\* the timestamp of the frame the external strategy takes is the one the
\* inline strategy seeks to (the fixed offset when the duration exceeds the
\* threshold, 0 otherwise).
SameFrameSelection ==
  /\ ProcessSucceeded => ex.ffmpegTime = InlineSeekTime(ex.dur)
  /\ ex.seekTime # -1 =>
       ex.seekTime = IF ex.dur > SEEK_THRESHOLD THEN SEEK_OFFSET ELSE 0

----------------------------------------------------------------------------
(* Duplicate requests *)

\* C19: a generate call for a key that is pending returns with queue,
\* pendingKeys, cache and activeCount unchanged and its callback is never
\* invoked: not during the call (nothing is called back, no callback is
\* registered), and not later: a completion invokes the callback of its own
\* task and no other.
PendingDuplicateDropped ==
  /\ [][\A k \in pendingKeys :
          (lastOp'.op = "generate" /\ lastOp'.fileKey = k)
            => /\ lastOp'.cbArgs = <<>>
               /\ UNCHANGED <<queue, pendingKeys, cache, activeCount, running,
                              rafTicks, nextId, cbCount>>]_vars
  /\ [][lastOp'.op = "complete"
          => /\ Len(cbCount') = Len(cbCount)
             /\ \E t \in running \ running' :
                  \A i \in 1..Len(cbCount) :
                    i # t.callback => cbCount'[i] = cbCount[i]]_vars
  /\ [](Len(cbCount) = nextId - 1)

\* A duplicate request arrived while the job of its key was still waiting in
\* the queue behind MAX_CONCURRENT_THUMBNAILS executing jobs.
PendingDuplicateDropped_Witness ==
  /\ lastOp.op = "generate"
  /\ lastOp.path = "pending"
  /\ \E i \in 1..Len(queue) : queue[i].fileKey = lastOp.fileKey

----------------------------------------------------------------------------
(* Cached results *)

\* The step evicts the entry of k: a completion finds the cache full with k
\* as its oldest key.
Evicts(k) ==
  /\ lastOp'.op = "complete"
  /\ Len(cache) >= MAX_CACHE_SIZE
  /\ cache[1].key = k

\* C20: a cached result is immutable: as long as a key stays in the cache
\* (it is not evicted and clearCache does not run) the cache maps it to the
\* same result; two jobs of one key never leave different results in the
\* cache one after the other.
CachedResultImmutable ==
  [][\A k \in CacheKeys(cache) \cap CacheKeys(cache') :
       ~Evicts(k) => CacheGet(cache', k) = CacheGet(cache, k)]_vars

\* C21: the completion-time cache write is idempotent: written twice in a
\* row for the same key and result it leaves the cache (keys, values, size)
\* as written once, whatever the cache holds, a full cache included.
PutIdempotent ==
  \A k \in Keys, r \in Results \cup {EMPTY} :
    CachePut(CachePut(cache, k, r), k, r) = CachePut(cache, k, r)

----------------------------------------------------------------------------
(* The scheduler *)

\* C22: in every reachable state activeCount is the number of jobs started
\* by processQueue whose extraction has not completed, also after clearCache.
ActiveCountExact == activeCount = Cardinality(running)

\* clearCache ran while MAX_CONCURRENT_THUMBNAILS jobs were executing.
ActiveCountExact_Witness ==
  /\ lastOp.op = "clearCache"
  /\ Cardinality(running) = MAX_CONCURRENT_THUMBNAILS

\* C23: right after any single run of processQueue (in generate or in a
\* dispatch tick) the limit is reached or the queue is empty, also when
\* several jobs completed before the tick ran.
TickDrainsToLimit ==
  (lastOp.op = "processQueue" \/ (lastOp.op = "generate" /\ lastOp.path = "enqueued"))
    => activeCount = MAX_CONCURRENT_THUMBNAILS \/ queue = <<>>

\* C24: no stall: whenever the queue is not empty, the executing jobs and
\* the dispatch ticks scheduled and not yet run together number at least
\* MAX_CONCURRENT_THUMBNAILS; so a free slot with work waiting always has a
\* tick pending.
NoStall ==
  Len(queue) > 0 =>
    /\ activeCount + rafTicks >= MAX_CONCURRENT_THUMBNAILS
    /\ activeCount < MAX_CONCURRENT_THUMBNAILS => rafTicks > 0

\* Two slots are free, two ticks are pending and two tasks wait.
NoStall_Witness ==
  /\ Len(queue) >= 2
  /\ activeCount = MAX_CONCURRENT_THUMBNAILS - 2
  /\ rafTicks >= 2

\* C25: with every started extraction completing and every scheduled tick
\* running, a job that is enqueued does not stay queued or executing for
\* ever; it leaves the queue only by being started or by a clearCache, and a
\* started job leaves only by completing, which puts its result into the
\* cache and delivers it to its callback.
PipelineLive ==
  /\ \A i \in 1..LiveLen :
       (LiveTask(i) \in Incomplete) ~> (LiveTask(i) \notin Incomplete)
  /\ [][\A i \in 1..LiveLen :
          LET t == LiveTask(i) IN
          /\ (t \in QueuedTasks /\ t \notin QueuedTasks')
               => (t \in running' \/ lastOp'.op = "clearCache")
          /\ (t \in running /\ t \notin running')
               => /\ cbCount'[i] >= 1
                  /\ lastOp'.op = "complete"
                  /\ CacheHas(cache', t.fileKey)
                  /\ CacheGet(cache', t.fileKey)
                       = lastOp'.cbArgs[Len(lastOp'.cbArgs)]]_vars

\* The last request has been started, completed, cached and delivered while
\* the second and the third are still executing, and every tick has run.
PipelineLive_Witness ==
  /\ nextId > LiveLen
  /\ cbCount[LiveLen] >= 1
  /\ CacheHas(cache, BurstKeys[LiveLen])
  /\ {LiveTask(2), LiveTask(3)} \subseteq running
  /\ rafTicks = 0

\* C26: on completion the scheduler first decrements activeCount and removes
\* the key from pendingKeys, then writes the cache, then delivers the result,
\* then re-triggers dispatch: when the caller callback runs the completing
\* job is no longer counted in activeCount, its key is no longer pending and
\* the tick of this completion is not yet scheduled.
CompletionOrder ==
  lastOp.op = "complete"
    => /\ cbView.activeCount = activeCount
       /\ ~cbView.pending
       /\ cbView.rafTicks = rafTicks - 1

\* C27: a completion never starts the next queued job itself: it leaves the
\* queue as it is, starts nothing, and schedules exactly one dispatch tick,
\* whether the job succeeded or failed; a queued job is started only by a
\* later processQueue run.
CompletionDefersDispatch ==
  [][lastOp'.op = "complete"
       => /\ queue' = queue
          /\ running' \subseteq running
          /\ activeCount' = activeCount - 1
          /\ rafTicks' = rafTicks + 1]_vars

\* A job failed while tasks were waiting: a slot is free, the tasks still
\* wait, the tick is pending.
CompletionDefersDispatch_Witness ==
  /\ FailedCompletion(lastOp)
  /\ Len(queue) > 0
  /\ activeCount < MAX_CONCURRENT_THUMBNAILS
  /\ rafTicks = MAX_CONCURRENT_THUMBNAILS - activeCount

\* C28: in an execution without clearCache, in every reachable state a key
\* is in pendingKeys exactly when exactly one job of that key is queued or
\* executing (and no key ever has two).
PendingIffOneJob ==
  \A k \in NoClearKeys :
    LET jobs == {u \in Incomplete : u.fileKey = k} IN
    /\ k \in pendingKeys <=> Cardinality(jobs) = 1
    /\ Cardinality(jobs) <= 1

\* One key is pending with its job waiting in the queue, three others with
\* their jobs executing.
PendingIffOneJob_Witness ==
  /\ Len(queue) = 1
  /\ Cardinality(running) = MAX_CONCURRENT_THUMBNAILS
  /\ queue[1].fileKey \in pendingKeys
  /\ Cardinality(pendingKeys) = MAX_CONCURRENT_THUMBNAILS + 1

\* C29: clearCache leaves activeCount, the executing jobs and the scheduled
\* ticks as they are, and every job that was executing at a clearCache, when
\* it completes, invokes its caller's callback exactly once, decrements
\* activeCount by one and schedules one dispatch tick.
ClearKeepsDispatched ==
  [][/\ lastOp'.op = "clearCache" =>
          /\ activeCount' = activeCount
          /\ running' = running
          /\ rafTicks' = rafTicks
     /\ \A t \in staleJobs \ running' :
          /\ cbCount'[t.callback] = cbCount[t.callback] + 1
          /\ activeCount' = activeCount - 1
          /\ rafTicks' = rafTicks + 1]_vars

\* C30: a job that clearCache removed from the queue is never started and
\* its caller's callback is never invoked (a job only starts from the queue
\* or in the generate that admits it, and a callback only runs for a
\* completing job or in the generate that supplied it), and the next generate
\* for the key of such a job is admitted as a new job.
DroppedJobGone ==
  [][/\ \A t \in running' \ running :
          t \in QueuedTasks \/ (lastOp'.op = "generate" /\ t.callback = nextId)
     /\ \A i \in 1..Len(cbCount) :
          cbCount'[i] > cbCount[i] => \E t \in running : t.callback = i
     /\ \A k \in droppedKeys :
          (lastOp'.op = "generate" /\ lastOp'.fileKey = k)
            => lastOp'.path = "enqueued"]_vars

\* C31: when the caller callback of a completing job of key k calls
\* generate for k from inside, the call takes the cache-hit branch, its
\* callback receives the result just delivered, no job is admitted, and
\* after the step k is cached with that result and not pending.
CallbackSeesCache ==
  [][(lastOp'.op = "completeCalling" /\ lastOp'.nestedKey = lastOp'.fileKey) =>
       /\ lastOp'.path = "hit"
       /\ lastOp'.nestedArgs = <<lastOp'.cbArgs[Len(lastOp'.cbArgs)]>>
       /\ queue' = queue /\ nextId' = nextId
       /\ lastOp'.fileKey \notin pendingKeys'
       /\ CacheGet(cache', lastOp'.fileKey) = lastOp'.cbArgs[Len(lastOp'.cbArgs)]]_vars

\* A job whose key was re-admitted after a clearCache completes with a full
\* cache and its callback asks for its own key again.
CallbackSeesCache_Witness ==
  /\ lastOp.op = "completeCalling" /\ lastOp.nestedKey = lastOp.fileKey
  /\ lastOp.path = "hit"
  /\ Len(cache) >= MAX_CACHE_SIZE
  /\ \E u \in Incomplete : u.fileKey = lastOp.fileKey

\* C32: every completion runs the wrapper once: the caller callback is
\* invoked exactly once, activeCount is decremented exactly once, and a
\* successful result stays in the cache as delivered (it is not replaced
\* by the empty result), also when the caller callback throws.
WrapperOnce ==
  [][lastOp'.op = "complete" =>
       /\ Len(lastOp'.cbArgs) = 1
       /\ \A i \in 1..Len(cbCount) : cbCount'[i] <= cbCount[i] + 1
       /\ activeCount' = activeCount - 1
       /\ CacheGet(cache', lastOp'.fileKey) = lastOp'.cbArgs[1]]_vars

\* The position of key k in the insertion order of cache c.
CachePos(c, k) == CHOOSE i \in 1..Len(c) : c[i].key = k

\* C33: eviction follows insertion order.  A generate call, a cache hit
\* included, leaves the cache and so the entry evicted next unchanged; a
\* completion removes only entries that are older than every entry it
\* keeps, and the entries it keeps stay in their order.
EvictionByInsertionOrder ==
  [][/\ lastOp'.op = "generate" => cache' = cache
     /\ lastOp'.op = "complete" =>
          LET k       == lastOp'.fileKey
              removed == CacheKeys(cache) \ CacheKeys(cache')
              kept    == (CacheKeys(cache) \cap CacheKeys(cache')) \ {k}
          IN  /\ \A r \in removed, s \in kept :
                   CachePos(cache, r) < CachePos(cache, s)
              /\ \A s1, s2 \in kept :
                   CachePos(cache, s1) < CachePos(cache, s2)
                     => CachePos(cache', s1) < CachePos(cache', s2)
              /\ \A s \in kept : CachePos(cache', s) < CachePos(cache', k)
                                   \/ (k \in CacheKeys(cache) /\
                                       CachePos(cache, k) < CachePos(cache, s))]_vars

\* The oldest entry of a full cache was just served from the cache while a
\* job of another, uncached key is executing: its completion evicts next.
EvictionByInsertionOrder_Witness ==
  /\ lastOp.op = "generate" /\ lastOp.path = "hit"
  /\ Len(cache) = MAX_CACHE_SIZE
  /\ cache[1].key = lastOp.fileKey
  /\ Truthy(cache)
  /\ \E t \in running : ~CacheHas(cache, t.fileKey)

\* C34: in every reachable state no key is both in the cache and in
\* pendingKeys.
CachePendingDisjoint == CacheKeys(cache) \cap pendingKeys = {}

\* A job that was executing at a clearCache completed while a later job of
\* its key was still queued or executing: the key is cached, and the
\* completion took it out of pendingKeys.
CachePendingDisjoint_Witness ==
  /\ lastOp.op = "complete"
  /\ CacheHas(cache, lastOp.fileKey)
  /\ \E u \in Incomplete : u.fileKey = lastOp.fileKey
  /\ pendingKeys # {}

\* The safety part of C35.
InlineSettledClean ==
  /\ ex.settleCalls <= ex.inlineRuns
  /\ ex.settleCalls <= 1
  /\ ex.cleanAtSettle
  /\ ex.settleCalls = 1 => ex.video = "released" /\ ~ex.timer
  /\ (ex.phase = "done" /\ ex.inlineRuns = 1)
       => /\ cbCount[FollowedTask.callback] = 1
          /\ JobResult = ex.result
          /\ JobResult \in InlineOutcomes

\* C35: an attempt of the inline strategy settles exactly once: resolve or
\* reject is called once, by the first of seek completion, media error and
\* timer expiry; at that call the element is released and the 10 s timer
\* cleared; whatever fires afterwards leaves the job's result unchanged; and
\* every attempt does settle.
InlineSettlesOnce ==
  /\ []InlineSettledClean
  /\ (ex.inlineRuns = 1) ~> (ex.settleCalls = 1)

\* The 100 ms timer armed by onloadeddata fired after the attempt had
\* settled and the job had completed.
InlineSettlesOnce_Witness ==
  /\ ex.phase = "done"
  /\ ex.settleCalls = 1
  /\ ex.late = 1
  /\ cbCount[FollowedTask.callback] = 1

\* Whether the duration d (tenths of a second) is known and exceeds 3 s.
LongerThanThreeSeconds(d) == d # NAN /\ d > 30

\* C36: when the inline strategy seeks, it seeks to 1.5 s if the decoded
\* duration is greater than 3 s and to 0 otherwise (3 s or less, or
\* unknown); the timestamp is always 0 or 1.5 s.
InlineFrameSelection ==
  ex.seekTime # -1 =>
    /\ ex.seekTime = (IF LongerThanThreeSeconds(ex.dur) THEN 15 ELSE 0)
    /\ ex.seekTime \in {0, 15}

\* The inline strategy sought in a medium of 3.1 s, just over the threshold.
InlineFrameSelection_Witness ==
  /\ ex.video = "seeking"
  /\ ex.dur = 31
  /\ ex.seekTime = 15

\* The failure the call met first, if any, in the order of the code.
FfmpegFailed ==
  \/ ~ex.in.inputPath \/ ~ex.in.ffmpegPath \/ ~ex.in.mkdirOk \/ ex.in.spawnThrows
  \/ ex.errorFired
  \/ (ex.closeFired /\ ex.exitCode # 0)
  \/ (ex.phase = "closed" /\ ~ex.in.readOk)

\* C37: the extractor's promise is never rejected; every failure fulfils it
\* with ok = false and an error; ok = true with a data URL is the result
\* only if the child closed with code 0 and the output file was read; and
\* the promise is settled by the first resolve only, however many follow.
ExtractorNeverRejects ==
  [][/\ ex'.state # "rejected"
     /\ ex'.state = "fulfilled" =>
          /\ ex'.result.ok =>
               /\ ex'.closeFired /\ ex'.exitCode = 0 /\ ex'.fileRead
               /\ ex'.result.dataUrl # "" /\ ex'.result.error = ""
          /\ ~ex'.result.ok => ex'.result.error # "" /\ ex'.result.dataUrl = ""
     /\ (FfmpegFailed' /\ ex'.resolveCalls = 1 /\ ex.resolveCalls = 0)
          => ex'.state = "fulfilled" /\ ~ex'.result.ok
     /\ ex.state = "fulfilled" => ex'.state = "fulfilled" /\ ex'.result = ex.result
     /\ ex'.phase = "returned" => ex'.state = "fulfilled"]_vars

\* The child emitted both 'error' and 'close' (code 0, file read): resolve
\* was called twice and the first call decided.
ExtractorNeverRejects_Witness ==
  /\ ex.errorFired /\ ex.closeFired /\ ex.exitCode = 0 /\ ex.fileRead
  /\ ex.resolveCalls = 2
  /\ ex.state = "fulfilled"
  /\ ~ex.result.ok

\* C38: the metadata duration probe always settles and is never rejected:
\* it resolves with the media duration when that is finite and the metadata
\* loaded, and with 0 otherwise (duration not finite, media error, 5 s
\* timer); a started probe does settle, and a job that awaits it goes on.
ProbeAlwaysSettles ==
  /\ [](ex.probe \in {"none", "pending", "settled"})
  /\ [](ex.probe = "settled" =>
          \/ ex.probeVal = 0
          \/ ex.probeVal = ex.dur /\ ex.dur \notin {NAN, INFINITE})
  /\ (ex.probe = "pending") ~> (ex.probe = "settled")
  /\ (ex.phase = "awaitProbe") ~> (ex.phase # "awaitProbe")

\* The external result carried no duration, the job awaited the probe of a
\* stream without an end, the probe resolved with 0 and the job completed
\* with the extractor's image.
ProbeAlwaysSettles_Witness ==
  /\ ex.probeAwaited
  /\ ex.probe = "settled" /\ ex.probeVal = 0
  /\ ex.dur = INFINITE
  /\ ex.phase = "done"
  /\ JobResult = [dataUrl |-> FfmpegImage, duration |-> 0]

====
